---- MODULE Spec2Model ----
\* The path-scoped file-tree operations of the file manager (src/src/utils/files.ts)
\* over a model of the server's filesystem, the configuration store that names the
\* active root (src/src/lib/config.ts) and the request handlers (src/src/index.ts).
\*
\* A string is a sequence of one-character strings (its UTF-16 code units); a
\* filesystem path is a record [segs, trail]: the sequence of its segments below "/"
\* and whether the path string ends in a separator. Timestamps (createdAt) are not
\* modelled.
EXTENDS Integers, Sequences, FiniteSets, TLC

VARIABLES
  fs,      \* the filesystem: absolute segment sequence -> [dir, data]
  pre,     \* the filesystem before the last operation
  last,    \* the last operation: its name, arguments, result and resolved paths
  sIn,     \* SpecSanitize: the candidate name
  sOut,    \* SpecSanitize: its sanitized form
  sPc,     \* SpecSanitize: "input" before the sanitizer ran, "done" after
  configCache,  \* config.ts: the in-memory configuration, JNull before the first load
  configFile,   \* the content of config.json
  diskOk,       \* whether a write of config.json succeeds
  procs         \* the calls in flight: for each, where it stands and its locals

vars == <<fs, pre, last, sIn, sOut, sPc, configCache, configFile, diskOk, procs>>

(***************************************************************************)
(* Bounds                                                                  *)
(***************************************************************************)
MaxSegs == 2   \* segments of a client path (subPath/name); a move has one more in all
MaxNodes == 2  \* filesystem nodes that are not the root or one of its ancestors
MaxData == 1   \* bytes of an uploaded file
MaxName == 3   \* SpecSanitize: code units of a candidate name

(***************************************************************************)
(* Characters and the sanitizer                                            *)
(***************************************************************************)
AlphaL == <<"a","b","c","d","e","f","g","h","i","j","k","l","m",
            "n","o","p","q","r","s","t","u","v","w","x","y","z">>
AlphaU == <<"A","B","C","D","E","F","G","H","I","J","K","L","M",
            "N","O","P","Q","R","S","T","U","V","W","X","Y","Z">>
Lower == {AlphaL[i] : i \in 1..Len(AlphaL)}
Upper == {AlphaU[i] : i \in 1..Len(AlphaU)}
Digits == {"0","1","2","3","4","5","6","7","8","9"}

\* the complement of the class [^a-zA-Z0-9._-]
SafeChars == Lower \cup Upper \cup Digits \cup {".", "_", "-"}

\* a replace without the g flag: only the first match is replaced
RECURSIVE safeName_FirstOnly(_)
safeName_FirstOnly(name) ==
  IF Len(name) = 0 THEN <<>>
  ELSE IF Head(name) \notin SafeChars THEN <<"_">> \o Tail(name)
  ELSE <<Head(name)>> \o safeName_FirstOnly(Tail(name))

\* name.replace(/[^a-zA-Z0-9._-]/g, "_")
RECURSIVE safeName(_)
safeName(name) ==
  IF Len(name) = 0 THEN <<>>
  ELSE <<IF Head(name) \in SafeChars THEN Head(name) ELSE "_">> \o safeName(Tail(name))

\* String.prototype.split with a one-character separator
RECURSIVE splitOn(_, _)
splitOn(s, sep) ==
  IF \A i \in 1..Len(s) : s[i] # sep THEN <<s>>
  ELSE LET i == CHOOSE k \in 1..Len(s) : s[k] = sep /\ \A j \in 1..(k-1) : s[j] # sep
       IN  <<SubSeq(s, 1, i-1)>> \o splitOn(SubSeq(s, i+1, Len(s)), sep)

\* s.split('/')
split(s) == splitOn(s, "/")

\* parts.join('/')
RECURSIVE joinSlash(_)
joinSlash(parts) ==
  IF parts = <<>> THEN <<>>
  ELSE IF Len(parts) = 1 THEN parts[1]
  ELSE parts[1] \o <<"/">> \o joinSlash(Tail(parts))

\* filePath.split('/').map(p => p.replace(...)).join('/')
safePath(filePath) ==
  LET parts == split(filePath)
  IN  joinSlash([i \in 1..Len(parts) |-> safeName(parts[i])])

\* `${subPath}/${name}` when subPath is non-empty, else name
relativePath(subPath, name) ==
  IF subPath # <<>> THEN subPath \o <<"/">> \o name ELSE name

(***************************************************************************)
(* node:path                                                               *)
(***************************************************************************)
\* path.normalize on an absolute path: "" and "." are dropped, ".." removes the
\* segment before it and is dropped at "/"
RECURSIVE walk(_, _)
walk(acc, parts) ==
  IF parts = <<>> THEN acc
  ELSE LET p == Head(parts)
       IN  walk(IF Len(p) = 0 \/ p = <<".">> THEN acc
                ELSE IF p = <<".", ".">>
                     THEN (IF Len(acc) = 0 THEN acc ELSE SubSeq(acc, 1, Len(acc)-1))
                     ELSE Append(acc, p),
                Tail(parts))

\* path.join(base, rel): empty arguments are skipped; a trailing separator is kept
\* unless the result is "/"
join(base, rel) ==
  IF Len(rel) = 0 THEN base
  ELSE LET s == walk(base.segs, split(rel))
       IN  [segs |-> s, trail |-> Len(s) > 0 /\ rel[Len(rel)] = "/"]

\* path.dirname
dirname(p) ==
  [segs |-> IF Len(p.segs) = 0 THEN p.segs ELSE SubSeq(p.segs, 1, Len(p.segs)-1),
   trail |-> FALSE]

IsPrefix(s, t) == Len(s) <= Len(t) /\ SubSeq(t, 1, Len(s)) = s

(***************************************************************************)
(* The configuration store (src/src/lib/config.ts)                         *)
(***************************************************************************)
\* JSON and JavaScript values: null, undefined (the value of a missing key),
\* numbers, Infinity (what a numeric literal beyond the double range parses to)
\* and arrays. An object is a record of its keys.
JNull == [kind |-> "null"]
JUndefined == [kind |-> "undefined"]
JInfinity == [kind |-> "infinity"]
JNum(n) == [kind |-> "number", n |-> n]
JArr(items) == [kind |-> "array", items |-> items]

IsObject(v) == "kind" \notin DOMAIN v

\* ToBoolean, as || applies it
ToBoolean(v) ==
  IF IsObject(v) THEN TRUE
  ELSE IF v.kind \in {"null", "undefined"} THEN FALSE
  ELSE IF v.kind = "number" THEN v.n # 0
  ELSE TRUE

\* null or undefined, as ?? tests it
Nullish(v) == ~IsObject(v) /\ v.kind \in {"null", "undefined"}

\* obj.key
Get(obj, key) == IF key \in DOMAIN obj THEN obj[key] ELSE JUndefined

\* arr[i]
At(arr, i) ==
  IF ~IsObject(arr) /\ arr.kind = "array" /\ ~IsObject(i) /\ i.kind = "number"
  THEN (IF i.n \in 0..(Len(arr.items) - 1) THEN arr.items[i.n + 1] ELSE JUndefined)
  ELSE JUndefined

\* { ...a, ...b }: the keys of b over those of a; null and numbers spread nothing
Spread(a, b) ==
  IF IsObject(b)
  THEN [k \in (DOMAIN a) \cup (DOMAIN b) |-> IF k \in DOMAIN b THEN b[k] ELSE a[k]]
  ELSE a

\* JSON.stringify of an object, as the document that parsing the text gives back:
\* keys whose value is undefined are left out, Infinity is written as null
JSONstringify(obj) ==
  [k \in {key \in DOMAIN obj : obj[key] # JUndefined} |->
     IF ~IsObject(obj[k]) /\ obj[k].kind = "infinity" THEN JNull ELSE obj[k]]

\* the content of config.json: no file, a JSON text (by its document), or text
\* that cannot be read or parsed
FileAbsent == [kind |-> "absent"]
FileCorrupt == [kind |-> "corrupt"]
FileOf(doc) == [kind |-> "json", doc |-> doc]

AbsPath(segs) == [segs |-> segs, trail |-> FALSE]

\* homedir() of the account the built-in locations belong to
USER_HOME == AbsPath(<< <<"h","o","m","e">>, <<"h","a","d","e","s">> >>)

DEFAULT_LOCATIONS ==
  << [name |-> "Project Data",
      path |-> AbsPath(<< <<"h","o","m","e">>, <<"h","a","d","e","s">>,
                          <<"p","r","o","j","e","c","t">>,
                          <<"f","i","l","e","m","a","n","a","g","e","r">>,
                          <<"d","a","t","a">> >>)],
     [name |-> "Ramadhan 2026",
      path |-> AbsPath(<< <<"h","o","m","e">>, <<"h","a","d","e","s">>,
                          <<"2","0","2","6","-","r","a","m","a","d","h","a","n">> >>)],
     [name |-> "Home Storage", path |-> USER_HOME] >>

\* { locations: DEFAULT_LOCATIONS, activeLocationIndex: 0 }
DefaultConfig == [locations |-> JArr(DEFAULT_LOCATIONS), activeLocationIndex |-> JNum(0)]

\* the try block of loadConfig: the cache it assigns, the file it leaves, whether it
\* threw. With no file it assigns the default and calls saveConfig on it, which
\* finds the cache set, writes a copy of it and assigns the copy.
loadConfig_try(file, writable) ==
  IF file.kind = "absent"
  THEN (IF writable
        THEN [threw |-> FALSE, cache |-> DefaultConfig,
              file |-> FileOf(JSONstringify(Spread(DefaultConfig, DefaultConfig)))]
        ELSE [threw |-> TRUE, cache |-> DefaultConfig, file |-> file])
  ELSE IF file.kind # "json" \/ Nullish(file.doc)
  THEN \* file.json() rejects, or data.locations is read from null
       [threw |-> TRUE, cache |-> JNull, file |-> file]
  ELSE LET data == file.doc
       IN  [threw |-> FALSE,
            cache |-> [locations |-> IF ToBoolean(Get(data, "locations"))
                                     THEN Get(data, "locations")
                                     ELSE JArr(DEFAULT_LOCATIONS),
                       activeLocationIndex |-> IF Nullish(Get(data, "activeLocationIndex"))
                                               THEN JNum(0)
                                               ELSE Get(data, "activeLocationIndex")],
            file |-> file]

\* loadConfig whose catch clause substitutes the default and throws again
loadConfig_Rethrow(cache, file, writable) ==
  IF cache # JNull THEN [threw |-> FALSE, cache |-> cache, file |-> file]
  ELSE LET t == loadConfig_try(file, writable)
       IN  IF t.threw THEN [threw |-> TRUE, cache |-> DefaultConfig, file |-> t.file]
           ELSE t

\* loadConfig: the configuration it returns is the cache it leaves
loadConfig(cache, file, writable) ==
  IF cache # JNull THEN [threw |-> FALSE, cache |-> cache, file |-> file]
  ELSE LET t == loadConfig_try(file, writable)
       IN  IF t.threw THEN [threw |-> FALSE, cache |-> DefaultConfig, file |-> t.file]
           ELSE t

\* saveConfig that assigns the cache before it writes
saveConfig_CacheFirst(cache, file, writable, newConfig) ==
  LET l == loadConfig(cache, file, writable)
      updated == Spread(l.cache, newConfig)
  IN  IF writable
      THEN [threw |-> FALSE, cache |-> updated, file |-> FileOf(JSONstringify(updated)),
            value |-> updated]
      ELSE [threw |-> TRUE, cache |-> updated, file |-> l.file, value |-> JUndefined]

\* saveConfig that writes the file and leaves the cache as loadConfig left it
saveConfig_NoAssign(cache, file, writable, newConfig) ==
  LET l == loadConfig(cache, file, writable)
      updated == Spread(l.cache, newConfig)
  IN  IF writable
      THEN [threw |-> FALSE, cache |-> l.cache, file |-> FileOf(JSONstringify(updated)),
            value |-> updated]
      ELSE [threw |-> TRUE, cache |-> l.cache, file |-> l.file, value |-> JUndefined]

\* saveConfig: value is the configuration it returns
saveConfig(cache, file, writable, newConfig) ==
  LET l == loadConfig(cache, file, writable)
      updated == Spread(l.cache, newConfig)
  IN  IF writable
      THEN [threw |-> FALSE, cache |-> updated, file |-> FileOf(JSONstringify(updated)),
            value |-> updated]
      ELSE [threw |-> TRUE, cache |-> l.cache, file |-> l.file, value |-> JUndefined]

\* getDataDir: reading an index of locations throws when locations is null or
\* undefined
getDataDir(cache) ==
  LET fallback == [threw |-> FALSE, path |-> DEFAULT_LOCATIONS[1].path]
  IN  IF cache = JNull THEN fallback
      ELSE IF Nullish(Get(cache, "locations"))
      THEN [threw |-> TRUE, path |-> DEFAULT_LOCATIONS[1].path]
      ELSE LET loc == At(Get(cache, "locations"), Get(cache, "activeLocationIndex"))
           IN  IF ToBoolean(loc) THEN [threw |-> FALSE, path |-> loc.path] ELSE fallback

\* getActiveLocation: the location of the configuration loadConfig returns; like
\* getDataDir it throws when locations is null or undefined
getActiveLocation(cache, file, writable) ==
  LET config == loadConfig(cache, file, writable).cache
      fallback == [threw |-> FALSE, location |-> DEFAULT_LOCATIONS[1]]
  IN  IF Nullish(Get(config, "locations"))
      THEN [threw |-> TRUE, location |-> DEFAULT_LOCATIONS[1]]
      ELSE LET location == At(Get(config, "locations"), Get(config, "activeLocationIndex"))
           IN  IF ToBoolean(location) THEN [threw |-> FALSE, location |-> location]
               ELSE fallback

(***************************************************************************)
(* The active root                                                         *)
(***************************************************************************)
\* getRoot(): loadConfig, then getDataDir
getRootResult == getDataDir(loadConfig(configCache, configFile, diskOk).cache)

getRoot == getRootResult.path

(***************************************************************************)
(* The filesystem                                                          *)
(***************************************************************************)
DirNode == [dir |-> TRUE, data |-> <<>>]
FileNode(bytes) == [dir |-> FALSE, data |-> bytes]

IsDir(f, s) == s \in DOMAIN f /\ f[s].dir
IsFile(f, s) == s \in DOMAIN f /\ ~f[s].dir

\* stat(p) succeeds: something is there, and it is a directory when the path ends
\* in a separator
statOk(f, p) == p.segs \in DOMAIN f /\ (p.trail => f[p.segs].dir)

Prefixes(s) == {SubSeq(s, 1, k) : k \in 0..Len(s)}

\* mkdir(p, { recursive: true }): fails when a component is a regular file
mkdir(f, p) ==
  IF \E q \in Prefixes(p.segs) : IsFile(f, q)
  THEN [ok |-> FALSE, fs |-> f]
  ELSE [ok |-> TRUE,
        fs |-> [q \in (DOMAIN f) \cup Prefixes(p.segs) |->
                  IF q \in DOMAIN f THEN f[q] ELSE DirNode]]

\* Bun.write(p, bytes): creates or overwrites a regular file, creating the parent
\* directory when it is missing (createPath defaults to true)
BunWrite(f, p, bytes) ==
  LET m == mkdir(f, dirname(p))
  IN  IF p.trail \/ IsDir(f, p.segs) \/ ~m.ok
      THEN [ok |-> FALSE, fs |-> f]
      ELSE [ok |-> TRUE,
            fs |-> [q \in (DOMAIN m.fs) \cup {p.segs} |->
                      IF q = p.segs THEN FileNode(bytes) ELSE m.fs[q]]]

\* unlink(p) of a regular file
unlink(f, p) ==
  IF p.trail \/ ~IsFile(f, p.segs)
  THEN [ok |-> FALSE, fs |-> f]
  ELSE [ok |-> TRUE, fs |-> [q \in (DOMAIN f) \ {p.segs} |-> f[q]]]

\* rm(p, { recursive: true }) of a directory
rm(f, p) ==
  [ok |-> TRUE,
   fs |-> [q \in {r \in DOMAIN f : ~IsPrefix(p.segs, r)} |-> f[q]]]

\* readdir(p): the names in a directory
readdir(f, p) ==
  {q[Len(q)] : q \in {r \in DOMAIN f : Len(r) = Len(p.segs) + 1 /\ IsPrefix(p.segs, r)}}

\* Bun.file(p).exists(): a regular file is there (false for a directory and for a
\* path that ends in a separator)
BunFileExists(f, p) == ~p.trail /\ IsFile(f, p.segs)

(***************************************************************************)
(* Listing assembler                                                       *)
(***************************************************************************)
toLowerCase(c) ==
  IF c \in Upper THEN AlphaL[CHOOSE i \in 1..Len(AlphaU) : AlphaU[i] = c] ELSE c

DocumentExt == { <<"p","d","f">>, <<"d","o","c">>, <<"d","o","c","x">>, <<"t","x","t">> }
ImageExt == { <<"j","p","g">>, <<"j","p","e","g">>, <<"p","n","g">>, <<"g","i","f">>,
              <<"w","e","b","p">>, <<"s","v","g">> }
VideoExt == { <<"m","p","4">>, <<"w","e","b","m">>, <<"m","o","v">> }
AudioExt == { <<"m","p","3">>, <<"w","a","v">>, <<"o","g","g">> }
ArchiveExt == { <<"z","i","p">>, <<"r","a","r">>, <<"7","z">>, <<"t","a","r">>,
                <<"g","z">>, <<"i","s","o">> }

\* the lower-case keys the table object inherits from Object.prototype
InheritedKeys == { <<"c","o","n","s","t","r","u","c","t","o","r">>,
                   <<"_","_","p","r","o","t","o","_","_">> }

\* getFileType: the text after the last "." (the whole name when it has none),
\* lowercased, looked up in the table; an inherited key finds a function or an
\* object, which is not a category
getFileType(filename) ==
  LET parts == splitOn(filename, ".")
      last_ == parts[Len(parts)]
      ext == [i \in 1..Len(last_) |-> toLowerCase(last_[i])]
  IN  IF ext \in InheritedKeys THEN "[object]"
      ELSE IF ext \in DocumentExt THEN "document"
      ELSE IF ext \in ImageExt THEN "image"
      ELSE IF ext \in VideoExt THEN "video"
      ELSE IF ext \in AudioExt THEN "audio"
      ELSE IF ext \in ArchiveExt THEN "archive"
      ELSE "file"

\* the order of String.prototype.localeCompare on the characters of the model:
\* punctuation, then digits, then letters; case decides only between strings that
\* are equal without it, lower case first
CollationOrder ==
  <<" ", "_", "-", ".", "#", "0","1","2","3","4","5","6","7","8","9">> \o AlphaL

Rank(c) ==
  LET l == toLowerCase(c)
  IN  IF \E i \in 1..Len(CollationOrder) : CollationOrder[i] = l
      THEN CHOOSE i \in 1..Len(CollationOrder) : CollationOrder[i] = l
      ELSE 0

RECURSIVE lexCompare(_, _)
lexCompare(x, y) ==
  IF Len(x) = 0 /\ Len(y) = 0 THEN 0
  ELSE IF Len(x) = 0 THEN -1
  ELSE IF Len(y) = 0 THEN 1
  ELSE IF Head(x) < Head(y) THEN -1
  ELSE IF Head(x) > Head(y) THEN 1
  ELSE lexCompare(Tail(x), Tail(y))

\* a comparison by code units, as < on strings: upper case before lower case
localeCompare_CodeUnits(a, b) ==
  LET order == <<" ", "#", "-", ".", "0","1","2","3","4","5","6","7","8","9">>
                 \o AlphaU \o <<"_">> \o AlphaL
      unit(c) == IF \E i \in 1..Len(order) : order[i] = c
                 THEN CHOOSE i \in 1..Len(order) : order[i] = c
                 ELSE 0
  IN  lexCompare([i \in 1..Len(a) |-> unit(a[i])], [i \in 1..Len(b) |-> unit(b[i])])

localeCompare(a, b) ==
  LET primary == lexCompare([i \in 1..Len(a) |-> Rank(a[i])], [i \in 1..Len(b) |-> Rank(b[i])])
  IN  IF primary # 0 THEN primary
      ELSE lexCompare([i \in 1..Len(a) |-> IF a[i] \in Upper THEN 1 ELSE 0],
                      [i \in 1..Len(b) |-> IF b[i] \in Upper THEN 1 ELSE 0])

\* the comparator of files.sort: folders first, then by name
compareEntries(a, b) ==
  IF a.isDirectory /\ ~b.isDirectory THEN -1
  ELSE IF ~a.isDirectory /\ b.isDirectory THEN 1
  ELSE localeCompare(a.name, b.name)

\* Array.prototype.sort with that comparator
RECURSIVE sortEntries(_)
sortEntries(S) ==
  IF S = {} THEN <<>>
  ELSE LET m == CHOOSE x \in S : \A y \in S : compareEntries(x, y) <= 0
       IN  <<m>> \o sortEntries(S \ {m})

GITKEEP == <<".","g","i","t","k","e","e","p">>

\* the FileInfo that listFiles pushes for one directory entry
listEntry(f, targetDir, subPath, entry) ==
  LET filePath == join(targetDir, entry)
      stats == f[filePath.segs]
  IN  [name |-> entry,
       size |-> IF stats.dir THEN 0 ELSE Len(stats.data),
       type |-> IF stats.dir THEN "folder" ELSE getFileType(entry),
       isDirectory |-> stats.dir,
       path |-> relativePath(subPath, entry)]

(***************************************************************************)
(* The operations of files.ts. Each yields the filesystem it leaves, whether *)
(* it threw, its boolean result (ok), the entries it returned, the absolute  *)
(* paths it resolved (targets) and the segments it joined onto the root.     *)
(***************************************************************************)
Outcome(f, threw, ok, entries, targets, joined) ==
  [fs |-> f, threw |-> threw, ok |-> ok, entries |-> entries,
   targets |-> targets, joined |-> joined]

Segments(rel) == {split(rel)[i] : i \in 1..Len(split(rel))}

\* ensureDataDir: throws when getRoot or mkdir does
ensureDataDir(f) ==
  IF getRootResult.threw THEN [ok |-> FALSE, fs |-> f] ELSE mkdir(f, getRoot)

\* listFiles without its try/catch: a failing readdir propagates
listFiles_NoCatch(f0, subPath) ==
  LET e == ensureDataDir(f0)
      root == getRoot
      targetDir == join(root, subPath)
      joined == Segments(subPath)
  IN  IF ~e.ok THEN Outcome(f0, TRUE, FALSE, <<>>, {}, {})
      ELSE IF ~(statOk(e.fs, targetDir) /\ IsDir(e.fs, targetDir.segs))
      THEN Outcome(e.fs, TRUE, FALSE, <<>>, {targetDir.segs}, joined)
      ELSE LET entries == readdir(e.fs, targetDir) \ {GITKEEP}
               files == {listEntry(e.fs, targetDir, subPath, n) : n \in entries}
           IN  Outcome(e.fs, FALSE, TRUE, sortEntries(files), {targetDir.segs}, joined)

\* listFiles without the skip of .gitkeep
listFiles_NoSkip(f0, subPath) ==
  LET e == ensureDataDir(f0)
      root == getRoot
      targetDir == join(root, subPath)
      joined == Segments(subPath)
  IN  IF ~e.ok THEN Outcome(f0, TRUE, FALSE, <<>>, {}, {})
      ELSE IF ~(statOk(e.fs, targetDir) /\ IsDir(e.fs, targetDir.segs))
      THEN Outcome(e.fs, FALSE, TRUE, <<>>, {targetDir.segs}, joined)
      ELSE LET entries == readdir(e.fs, targetDir)
               files == {listEntry(e.fs, targetDir, subPath, n) : n \in entries}
           IN  Outcome(e.fs, FALSE, TRUE, sortEntries(files), {targetDir.segs}, joined)

listFiles(f0, subPath) ==
  LET e == ensureDataDir(f0)
      root == getRoot
      targetDir == join(root, subPath)
      joined == Segments(subPath)
  IN  IF ~e.ok THEN Outcome(f0, TRUE, FALSE, <<>>, {}, {})
      ELSE IF ~(statOk(e.fs, targetDir) /\ IsDir(e.fs, targetDir.segs))
      THEN \* readdir throws: caught
           Outcome(e.fs, FALSE, TRUE, <<>>, {targetDir.segs}, joined)
      ELSE LET entries == readdir(e.fs, targetDir) \ {GITKEEP}
               files == {listEntry(e.fs, targetDir, subPath, n) : n \in entries}
           IN  Outcome(e.fs, FALSE, TRUE, sortEntries(files), {targetDir.segs}, joined)

\* saveFile that leaves an existing file as it is instead of overwriting it
saveFile_KeepExisting(f0, name, data, subPath) ==
  LET e == ensureDataDir(f0)
      root == getRoot
      safe == safeName(name)
      targetDir == IF Len(subPath) > 0 THEN join(root, subPath) ELSE root
      m == mkdir(e.fs, targetDir)
      filePath == join(targetDir, safe)
      w == IF IsFile(m.fs, filePath.segs) THEN [ok |-> TRUE, fs |-> m.fs]
           ELSE BunWrite(m.fs, filePath, data)
      joined == (IF Len(subPath) > 0 THEN Segments(subPath) ELSE {}) \cup {safe}
      targets == {targetDir.segs, filePath.segs}
  IN  IF ~e.ok THEN Outcome(f0, TRUE, FALSE, <<>>, {}, {})
      ELSE IF ~m.ok THEN Outcome(e.fs, TRUE, FALSE, <<>>, targets, joined)
      ELSE IF ~w.ok THEN Outcome(m.fs, TRUE, FALSE, <<>>, targets, joined)
      ELSE Outcome(w.fs, FALSE, TRUE,
                   <<[name |-> safe,
                      size |-> Len(w.fs[filePath.segs].data),
                      type |-> getFileType(safe),
                      isDirectory |-> FALSE,
                      path |-> relativePath(subPath, safe)]>>,
                   targets, joined)

saveFile(f0, name, data, subPath) ==
  LET e == ensureDataDir(f0)
      root == getRoot
      safe == safeName(name)
      targetDir == IF Len(subPath) > 0 THEN join(root, subPath) ELSE root
      m == mkdir(e.fs, targetDir)
      filePath == join(targetDir, safe)
      w == BunWrite(m.fs, filePath, data)
      joined == (IF Len(subPath) > 0 THEN Segments(subPath) ELSE {}) \cup {safe}
      targets == {targetDir.segs, filePath.segs}
  IN  IF ~e.ok THEN Outcome(f0, TRUE, FALSE, <<>>, {}, {})
      ELSE IF ~m.ok THEN Outcome(e.fs, TRUE, FALSE, <<>>, targets, joined)
      ELSE IF ~w.ok THEN Outcome(m.fs, TRUE, FALSE, <<>>, targets, joined)
      ELSE Outcome(w.fs, FALSE, TRUE,
                   <<[name |-> safe,
                      size |-> Len(w.fs[filePath.segs].data),
                      type |-> getFileType(safe),
                      isDirectory |-> FALSE,
                      path |-> relativePath(subPath, safe)]>>,
                   targets, joined)

\* createFolder with an exclusive mkdir: an existing target is an error
createFolder_Exclusive(f0, name, subPath) ==
  LET e == ensureDataDir(f0)
      root == getRoot
      safe == safeName(name)
      targetDir == IF Len(subPath) > 0 THEN join(join(root, subPath), safe)
                   ELSE join(root, safe)
      m == mkdir(e.fs, targetDir)
      joined == (IF Len(subPath) > 0 THEN Segments(subPath) ELSE {}) \cup {safe}
  IN  IF ~e.ok THEN Outcome(f0, TRUE, FALSE, <<>>, {}, {})
      ELSE IF ~m.ok \/ targetDir.segs \in DOMAIN e.fs
      THEN Outcome(e.fs, TRUE, FALSE, <<>>, {targetDir.segs}, joined)
      ELSE Outcome(m.fs, FALSE, TRUE,
                   <<[name |-> safe,
                      size |-> 0,
                      type |-> "folder",
                      isDirectory |-> TRUE,
                      path |-> relativePath(subPath, safe)]>>,
                   {targetDir.segs}, joined)

createFolder(f0, name, subPath) ==
  LET e == ensureDataDir(f0)
      root == getRoot
      safe == safeName(name)
      targetDir == IF Len(subPath) > 0 THEN join(join(root, subPath), safe)
                   ELSE join(root, safe)
      m == mkdir(e.fs, targetDir)
      joined == (IF Len(subPath) > 0 THEN Segments(subPath) ELSE {}) \cup {safe}
  IN  IF ~e.ok THEN Outcome(f0, TRUE, FALSE, <<>>, {}, {})
      ELSE IF ~m.ok \/ ~statOk(m.fs, targetDir)
      THEN Outcome(e.fs, TRUE, FALSE, <<>>, {targetDir.segs}, joined)
      ELSE Outcome(m.fs, FALSE, TRUE,
                   <<[name |-> safe,
                      size |-> 0,
                      type |-> "folder",
                      isDirectory |-> TRUE,
                      path |-> relativePath(subPath, safe)]>>,
                   {targetDir.segs}, joined)

\* POST /api/folders: a missing or empty name is answered with status 400 before
\* anything else is done
postFolders(f0, name, path) ==
  IF Len(name) = 0 THEN Outcome(f0, FALSE, FALSE, <<>>, {}, {})
  ELSE createFolder(f0, name, path)

\* getFile that answers for anything stat finds, a directory included
getFile_AnyNode(f0, filePath) ==
  LET e == ensureDataDir(f0)
      root == getRoot
      safe == safePath(filePath)
      fullPath == join(root, safe)
  IN  IF ~e.ok THEN Outcome(f0, TRUE, FALSE, <<>>, {}, {})
      ELSE Outcome(e.fs, FALSE, statOk(e.fs, fullPath), <<>>,
                   {fullPath.segs}, Segments(safe))

getFile(f0, filePath) ==
  LET e == ensureDataDir(f0)
      root == getRoot
      safe == safePath(filePath)
      fullPath == join(root, safe)
  IN  IF ~e.ok THEN Outcome(f0, TRUE, FALSE, <<>>, {}, {})
      ELSE Outcome(e.fs, FALSE, BunFileExists(e.fs, fullPath), <<>>,
                   {fullPath.segs}, Segments(safe))

deleteFile(f0, filePath) ==
  LET e == ensureDataDir(f0)
      root == getRoot
      safe == safePath(filePath)
      fullPath == join(root, safe)
      r == IF ~statOk(e.fs, fullPath) THEN [ok |-> FALSE, fs |-> e.fs]
           ELSE IF IsDir(e.fs, fullPath.segs) THEN rm(e.fs, fullPath)
           ELSE unlink(e.fs, fullPath)
  IN  IF ~e.ok THEN Outcome(f0, TRUE, FALSE, <<>>, {}, {})
      ELSE Outcome(r.fs, FALSE, r.ok, <<>>, {fullPath.segs}, Segments(safe))

\* moveFile without the mkdir of the destination's parent: the write fails when
\* the parent is missing
moveFile_NoMkdir(f0, sourcePath, destPath) ==
  LET e == ensureDataDir(f0)
      root == getRoot
      safeSource == safePath(sourcePath)
      safeDest == safePath(destPath)
      fullSource == join(root, safeSource)
      fullDest == join(root, safeDest)
      content == e.fs[fullSource.segs].data
      w == IF IsDir(e.fs, dirname(fullDest).segs) THEN BunWrite(e.fs, fullDest, content)
           ELSE [ok |-> FALSE, fs |-> e.fs]
      u == unlink(w.fs, fullSource)
      targets == {fullSource.segs, fullDest.segs}
      joined == Segments(safeSource) \cup Segments(safeDest)
  IN  IF ~e.ok THEN Outcome(f0, TRUE, FALSE, <<>>, {}, {})
      ELSE IF ~BunFileExists(e.fs, fullSource)
      THEN Outcome(e.fs, FALSE, FALSE, <<>>, targets, joined)
      ELSE IF ~w.ok THEN Outcome(e.fs, FALSE, FALSE, <<>>, targets, joined)
      ELSE IF ~u.ok THEN Outcome(w.fs, FALSE, FALSE, <<>>, targets, joined)
      ELSE Outcome(u.fs, FALSE, TRUE, <<>>, targets, joined)

moveFile(f0, sourcePath, destPath) ==
  LET e == ensureDataDir(f0)
      root == getRoot
      safeSource == safePath(sourcePath)
      safeDest == safePath(destPath)
      fullSource == join(root, safeSource)
      fullDest == join(root, safeDest)
      m == mkdir(e.fs, dirname(fullDest))
      content == e.fs[fullSource.segs].data
      w == BunWrite(m.fs, fullDest, content)
      u == unlink(w.fs, fullSource)
      targets == {fullSource.segs, fullDest.segs}
      joined == Segments(safeSource) \cup Segments(safeDest)
  IN  IF ~e.ok THEN Outcome(f0, TRUE, FALSE, <<>>, {}, {})
      ELSE IF ~BunFileExists(e.fs, fullSource)
      THEN Outcome(e.fs, FALSE, FALSE, <<>>, targets, joined)
      ELSE IF ~m.ok THEN Outcome(e.fs, FALSE, FALSE, <<>>, targets, joined)
      ELSE IF ~w.ok THEN Outcome(m.fs, FALSE, FALSE, <<>>, targets, joined)
      ELSE IF ~u.ok THEN Outcome(w.fs, FALSE, FALSE, <<>>, targets, joined)
      ELSE Outcome(u.fs, FALSE, TRUE, <<>>, targets, joined)

\* a moveFile whose removal of the source never fails
moveFileFault_Atomic(f0, sourcePath, destPath, unlinkFault) ==
  moveFile(f0, sourcePath, destPath)

\* moveFile on a filesystem where unlink(fullSource) may fail (the source's
\* directory not writable, an I/O error): the rejection lands in the catch, which
\* returns false with the destination already written
moveFileFault(f0, sourcePath, destPath, unlinkFault) ==
  LET r == moveFile(f0, sourcePath, destPath)
      root == getRoot
      fullSource == join(root, safePath(sourcePath))
      fullDest == join(root, safePath(destPath))
      e == ensureDataDir(f0)
      m == mkdir(e.fs, dirname(fullDest))
      w == BunWrite(m.fs, fullDest, e.fs[fullSource.segs].data)
  IN  IF unlinkFault /\ r.ok
      THEN Outcome(w.fs, FALSE, FALSE, <<>>, r.targets, r.joined)
      ELSE r

(***************************************************************************)
(* Client inputs                                                           *)
(***************************************************************************)
\* path segments a client sends: empty, ".", "..", a name ("gz"), a name with a
\* character outside the safe class
SegInputs == { <<>>, <<".">>, <<".", ".">>, <<"g","z">>, <<"#">> }

\* relative paths of n segments
RECURSIVE PathsOf(_)
PathsOf(n) ==
  IF n = 1 THEN SegInputs
  ELSE {p \o <<"/">> \o s : p \in PathsOf(n-1), s \in SegInputs}

PathInputs(n) == UNION {PathsOf(k) : k \in 1..n}

\* file and folder names: a segment or the reserved name
NameInputs == SegInputs \cup { GITKEEP }

ClientPaths == PathInputs(MaxSegs)
ParentPaths == PathInputs(MaxSegs - 1)

Bytes == {0}
RECURSIVE SeqsOf(_, _)
SeqsOf(S, n) ==
  IF n = 0 THEN {<<>>}
  ELSE LET shorter == SeqsOf(S, n-1)
       IN  shorter \cup {Append(q, x) : q \in {r \in shorter : Len(r) = n-1}, x \in S}
DataInputs == SeqsOf(Bytes, MaxData)

\* nodes other than the root and its ancestors
Extra(f) == LET root == getRoot.segs IN {q \in DOMAIN f : ~IsPrefix(q, root)}

InitFs == [q \in {<<>>} |-> DirNode]
NoLast == [op |-> "none", a1 |-> <<>>, a2 |-> <<>>, data |-> <<>>,
           threw |-> FALSE, ok |-> FALSE, entries |-> <<>>, targets |-> {}, joined |-> {}]

Record(op, a1, a2, data, r) ==
  [op |-> op, a1 |-> a1, a2 |-> a2, data |-> data,
   threw |-> r.threw, ok |-> r.ok, entries |-> r.entries,
   targets |-> r.targets, joined |-> r.joined]

\* a handler of the request layer runs one operation to completion; its outcome
\* is the response in flight until Respond delivers it. Every operation of files.ts
\* starts with getRoot, whose loadConfig fills the cache.
Step(op, a1, a2, data, r) ==
  /\ last.op = "none"
  /\ Cardinality(Extra(r.fs)) <= MaxNodes
  /\ fs' = r.fs
  /\ pre' = fs
  /\ last' = Record(op, a1, a2, data, r)
  /\ configCache' = loadConfig(configCache, configFile, diskOk).cache
  /\ configFile' = loadConfig(configCache, configFile, diskOk).file
  /\ UNCHANGED <<diskOk, sIn, sOut, sPc, procs>>

(***************************************************************************)
(* Actions                                                                 *)
(***************************************************************************)
\* the server has started: nothing is cached, config.json was never written, no
\* call is in flight
InitConfig ==
  /\ configCache = JNull
  /\ configFile = FileAbsent
  /\ diskOk = TRUE
  /\ procs = <<>>

Init ==
  /\ fs = InitFs
  /\ pre = InitFs
  /\ last = NoLast
  /\ sIn = <<>>
  /\ sOut = <<>>
  /\ sPc = "idle"
  /\ InitConfig

ListFiles ==
  \E subPath \in ClientPaths :
    Step("listFiles", subPath, <<>>, <<>>, listFiles(fs, subPath))

SaveFile ==
  \E name \in NameInputs, subPath \in ParentPaths, data \in DataInputs :
    Step("saveFile", name, subPath, data, saveFile(fs, name, data, subPath))

CreateFolder ==
  \E name \in NameInputs, subPath \in ParentPaths :
    Step("createFolder", name, subPath, <<>>, createFolder(fs, name, subPath))

GetFile ==
  \E filePath \in ClientPaths :
    Step("getFile", filePath, <<>>, <<>>, getFile(fs, filePath))

DeleteFile ==
  \E filePath \in ClientPaths :
    Step("deleteFile", filePath, <<>>, <<>>, deleteFile(fs, filePath))

MoveFile ==
  \E n \in 1..MaxSegs :
    \E sourcePath \in PathsOf(n), destPath \in PathInputs(MaxSegs + 1 - n) :
      Step("moveFile", sourcePath, destPath, <<>>, moveFile(fs, sourcePath, destPath))

\* the response is sent; the server is idle again
Respond ==
  /\ last.op # "none"
  /\ last' = NoLast
  /\ pre' = fs
  /\ UNCHANGED <<fs, sIn, sOut, sPc, configCache, configFile, diskOk, procs>>

Next ==
  \/ ListFiles
  \/ SaveFile
  \/ CreateFolder
  \/ GetFile
  \/ DeleteFile
  \/ MoveFile
  \/ Respond

Spec == Init /\ [][Next]_vars

(***************************************************************************)
(* SpecConfig: the configuration routes, restarts of the server, faults of  *)
(* the disk and edits of config.json from outside, with a listing of the    *)
(* active root                                                              *)
(***************************************************************************)
MaxIndex == 3  \* SpecConfig: a client sends activeLocationIndex 0..MaxIndex

\* a list of locations a client sets
CustomLocations == << [name |-> "Srv", path |-> AbsPath(<< <<"s","r","v">> >>)] >>

\* bodies of POST /api/config: any JSON object
ConfigBodies ==
  {[activeLocationIndex |-> v] : v \in {JNum(k) : k \in 0..MaxIndex} \cup {JNull, JInfinity}}
    \cup {[locations |-> v] : v \in {JNull, JArr(<<>>), JArr(CustomLocations)}}
    \cup {[theme |-> JNum(1)]}

\* the response of a configuration route, with the cache and the file it found
ConfigRecord(op, body, threw, value) ==
  [op |-> op, a1 |-> body, a2 |-> <<>>, data |-> <<>>,
   threw |-> threw, ok |-> ~threw, entries |-> <<>>, targets |-> {}, joined |-> {},
   value |-> value, before |-> configCache, fileBefore |-> configFile]

\* POST /api/config
PostConfig ==
  \E body \in ConfigBodies :
    LET r == saveConfig(configCache, configFile, diskOk, body)
    IN  /\ last.op = "none"
        /\ configCache' = r.cache
        /\ configFile' = r.file
        /\ last' = ConfigRecord("saveConfig", body, r.threw, r.value)
        /\ pre' = fs
        /\ UNCHANGED <<fs, diskOk, sIn, sOut, sPc, procs>>

\* GET /api/config
GetConfig ==
  LET r == loadConfig(configCache, configFile, diskOk)
  IN  /\ last.op = "none"
      /\ configCache' = r.cache
      /\ configFile' = r.file
      /\ last' = ConfigRecord("loadConfig", <<>>, r.threw, r.cache)
      /\ pre' = fs
      /\ UNCHANGED <<fs, diskOk, sIn, sOut, sPc, procs>>

\* GET /api/files of the active root; no bound on the nodes, which are the roots
ListActive ==
  LET r == listFiles(fs, <<>>)
  IN  /\ last.op = "none"
      /\ fs' = r.fs
      /\ pre' = fs
      /\ last' = Record("listFiles", <<>>, <<>>, <<>>, r)
      /\ configCache' = loadConfig(configCache, configFile, diskOk).cache
      /\ configFile' = loadConfig(configCache, configFile, diskOk).file
      /\ UNCHANGED <<diskOk, sIn, sOut, sPc, procs>>

\* the server process is restarted: the module-level cache starts as null
Restart ==
  /\ last.op = "none"
  /\ configCache # JNull
  /\ configCache' = JNull
  /\ UNCHANGED <<fs, pre, last, configFile, diskOk, sIn, sOut, sPc, procs>>

\* the disk starts or stops failing writes
DiskFault ==
  /\ last.op = "none"
  /\ diskOk' = ~diskOk
  /\ UNCHANGED <<fs, pre, last, configCache, configFile, sIn, sOut, sPc, procs>>

\* config.json is removed, damaged or replaced by the text null from outside
EditConfigFile ==
  /\ last.op = "none"
  /\ configFile' \in {FileAbsent, FileCorrupt, FileOf(JNull)}
  /\ configFile' # configFile
  /\ UNCHANGED <<fs, pre, last, configCache, diskOk, sIn, sOut, sPc, procs>>

NextConfig ==
  \/ PostConfig
  \/ GetConfig
  \/ ListActive
  \/ Restart
  \/ DiskFault
  \/ EditConfigFile
  \/ Respond

SpecConfig == Init /\ [][NextConfig]_vars

(***************************************************************************)
(* SpecBatch: the multi-item requests. A batch upload is one POST /api/files *)
(* whose handler saves the files of the form in turn; delete-selected is the *)
(* client's loop of DELETE requests followed by its refresh.                 *)
(***************************************************************************)
MaxItems == 2  \* SpecBatch: entries of an upload form, paths of a selection

\* the loop of POST /api/files: a form entry that is a string is skipped; a throw
\* of saveFile leaves the loop and the handler. attempted lists the names saveFile
\* was called with.
RECURSIVE uploadLoop(_, _, _, _, _)
uploadLoop(f, formData, path, uploadedFiles, attempted) ==
  IF formData = <<>>
  THEN [fs |-> f, threw |-> FALSE, uploadedFiles |-> uploadedFiles, attempted |-> attempted]
  ELSE LET value == Head(formData)
       IN  IF ~value.isFile
           THEN uploadLoop(f, Tail(formData), path, uploadedFiles, attempted)
           ELSE LET r == saveFile(f, value.name, value.data, path)
                IN  IF r.threw
                    THEN [fs |-> r.fs, threw |-> TRUE, uploadedFiles |-> uploadedFiles,
                          attempted |-> Append(attempted, value.name)]
                    ELSE uploadLoop(r.fs, Tail(formData), path,
                                    uploadedFiles \o r.entries,
                                    Append(attempted, value.name))

\* POST /api/files
postFiles(f0, formData, path) == uploadLoop(f0, formData, path, <<>>, <<>>)

\* the loop of deleteSelected: one DELETE request per selected path; fetch resolves
\* whatever the status of the response, so the loop goes on
RECURSIVE deleteLoop(_, _, _)
deleteLoop(f, paths, attempted) ==
  IF paths = <<>> THEN [fs |-> f, attempted |-> attempted]
  ELSE LET r == deleteFile(f, Head(paths))
       IN  deleteLoop(r.fs, Tail(paths),
                      Append(attempted, [path |-> Head(paths), ok |-> r.ok, threw |-> r.threw]))

\* deleteSelected: the loop, then refresh, which lists currentPath
deleteSelected(f0, selectedFiles, currentPath) ==
  LET d == deleteLoop(f0, selectedFiles, <<>>)
      l == listFiles(d.fs, currentPath)
  IN  [fs |-> l.fs, threw |-> FALSE, uploadedFiles |-> l.entries, attempted |-> d.attempted]

\* names of uploaded files: one that resolves to the target directory itself, one
\* the sanitizer keeps, one it changes
BatchNames == { <<".">>, <<"g","z">>, <<"#">> }

FormEntries ==
  {[isFile |-> TRUE, name |-> n, data |-> <<0>>] : n \in BatchNames}
    \cup {[isFile |-> FALSE, name |-> <<>>, data |-> <<>>]}

\* paths of listed entries a client has selected
SelectablePaths == { <<"g","z">>, <<"_">>, <<"g","z","/","_">> }

BatchDirs == { <<>>, <<"g","z">> }

\* sequences without repetition of 1..n elements of S
RECURSIVE Selections(_, _)
Selections(S, n) ==
  IF n = 0 THEN {<<>>}
  ELSE LET shorter == Selections(S, n-1)
       IN  shorter \cup {Append(q, x) : q \in {r \in shorter : Len(r) = n-1},
                                        x \in S}

Distinct(q) == \A i, j \in 1..Len(q) : i # j => q[i] # q[j]

BatchStep(op, a1, a2, r) ==
  /\ last.op = "none"
  /\ Cardinality(Extra(r.fs)) <= MaxNodes
  /\ fs' = r.fs
  /\ pre' = fs
  /\ last' = [op |-> op, a1 |-> a1, a2 |-> a2, data |-> <<>>,
              threw |-> r.threw, ok |-> ~r.threw, entries |-> r.uploadedFiles,
              targets |-> {}, joined |-> {}, attempted |-> r.attempted]
  /\ configCache' = loadConfig(configCache, configFile, diskOk).cache
  /\ configFile' = loadConfig(configCache, configFile, diskOk).file
  /\ UNCHANGED <<diskOk, sIn, sOut, sPc, procs>>

UploadFiles ==
  \E formData \in Selections(FormEntries, MaxItems) \ {<<>>}, path \in BatchDirs :
    BatchStep("uploadFiles", formData, path, postFiles(fs, formData, path))

DeleteSelected ==
  \E selectedFiles \in {q \in Selections(SelectablePaths, MaxItems) : Distinct(q)} \ {<<>>},
     currentPath \in BatchDirs :
    BatchStep("deleteSelected", selectedFiles, currentPath,
              deleteSelected(fs, selectedFiles, currentPath))

NextBatch ==
  \/ UploadFiles
  \/ DeleteSelected
  \/ CreateFolder
  \/ Respond

SpecBatch == Init /\ [][NextBatch]_vars

(***************************************************************************)
(* SpecList: the listing of an active root that holds any files and folders *)
(* of a set of names, put there by uploads or from outside                  *)
(***************************************************************************)
MaxEntries == 3  \* SpecList: entries in the listed directory

\* names that differ in case, in punctuation and digits, with and without an
\* extension, and the reserved name
ListNames ==
  { <<"a">>, <<"B">>, <<"b">>, <<"_">>, <<"1">>,
    <<"p","d","f">>, <<"a",".","P","D","F">>, <<"c",".","b">>, GITKEEP }

\* the contents of the directory: names with whether each is a directory
ListContents ==
  {E \in SUBSET (ListNames \X BOOLEAN) :
     /\ Cardinality(E) <= MaxEntries
     /\ \A x, y \in E : x[1] = y[1] => x = y}

\* the filesystem with the root, its ancestors and the contents E of the root
RootWith(E) ==
  LET root == DEFAULT_LOCATIONS[1].path.segs
  IN  [q \in Prefixes(root) \cup {Append(root, x[1]) : x \in E} |->
         IF q \in Prefixes(root) THEN DirNode
         ELSE IF <<q[Len(q)], TRUE>> \in E THEN DirNode
         ELSE FileNode(<<0>>)]

InitList ==
  /\ InitConfig
  /\ fs \in {RootWith(E) : E \in ListContents}
  /\ pre = fs
  /\ last = NoLast
  /\ sIn = <<>>
  /\ sOut = <<>>
  /\ sPc = "idle"

\* GET /api/files with no path
ListRoot ==
  LET r == listFiles(fs, <<>>)
  IN  /\ last.op = "none"
      /\ fs' = r.fs
      /\ pre' = fs
      /\ last' = Record("listFiles", <<>>, <<>>, <<>>, r)
      /\ configCache' = loadConfig(configCache, configFile, diskOk).cache
      /\ configFile' = loadConfig(configCache, configFile, diskOk).file
      /\ UNCHANGED <<diskOk, sIn, sOut, sPc, procs>>

NextList ==
  \/ ListRoot
  \/ Respond

SpecList == InitList /\ [][NextList]_vars

(***************************************************************************)
(* SpecMove: the three ways a move is issued, on a root that holds folders  *)
(* and files one of whose names starts with the other's: the move dialog,   *)
(* a drop on a folder, and a direct POST /api/move                          *)
(***************************************************************************)
\* POST /api/move: a missing or empty source or destination is answered with
\* status 400 before anything else is done
postMove(f0, source, destination) ==
  IF Len(source) = 0 \/ Len(destination) = 0
  THEN Outcome(f0, FALSE, FALSE, <<>>, {}, {})
  ELSE moveFile(f0, source, destination)

\* path.split("/").pop()
pop(path) == split(path)[Len(split(path))]

\* what a handler of the client did: whether it issued the request, the message it
\* showed, whether the move succeeded, the filesystem it left
MoveOutcome(f, issued, ok, error, destination) ==
  [fs |-> f, issued |-> issued, ok |-> ok, error |-> error, destination |-> destination]

\* MoveFileDialog.handleMove: onMove is the moveFile of useFiles, which throws when
\* the response is not ok
handleMove(f0, file, selectedPath) ==
  LET fileName == IF Len(pop(file.path)) > 0 THEN pop(file.path) ELSE file.name
      newPath == relativePath(selectedPath, fileName)
      r == postMove(f0, file.path, newPath)
  IN  IF newPath = file.path
      THEN MoveOutcome(f0, FALSE, FALSE, "File is already in this location", newPath)
      ELSE IF file.isDirectory /\ IsPrefix(file.path, selectedPath)
      THEN MoveOutcome(f0, FALSE, FALSE, "Cannot move a folder into itself", newPath)
      ELSE IF r.ok THEN MoveOutcome(r.fs, TRUE, TRUE, "", newPath)
      ELSE MoveOutcome(r.fs, TRUE, FALSE, "Failed to move file", newPath)

\* FileManager.handleDrop
handleDrop(f0, draggedFile, targetPath) ==
  LET fileName == pop(draggedFile.path)
      newPath == relativePath(targetPath, fileName)
      r == postMove(f0, draggedFile.path, newPath)
  IN  IF draggedFile.path = targetPath \/ Len(newPath) = 0
      THEN MoveOutcome(f0, FALSE, FALSE, "", newPath)
      ELSE MoveOutcome(r.fs, TRUE, r.ok, IF r.ok THEN "" ELSE "Move failed", newPath)

g == <<"g">>
gz == <<"g","z">>

\* the places below the root that may hold a file or a folder
TreePaths == { <<g>>, <<gz>>, <<g, g>>, <<g, gz>>, <<gz, g>> }

\* what each place holds; something below a place only when that is a folder
TreeKinds ==
  {k \in [TreePaths -> {"none", "file0", "file1", "dir"}] :
     \A q \in TreePaths :
       (Len(q) > 1 /\ k[q] # "none") => k[SubSeq(q, 1, Len(q) - 1)] = "dir"}

TreeWith(k) ==
  LET root == DEFAULT_LOCATIONS[1].path.segs
      held == {q \in TreePaths : k[q] # "none"}
  IN  [q \in Prefixes(root) \cup {root \o t : t \in held} |->
         IF q \in Prefixes(root) THEN DirNode
         ELSE IF k[SubSeq(q, Len(root) + 1, Len(q))] = "dir" THEN DirNode
         ELSE IF k[SubSeq(q, Len(root) + 1, Len(q))] = "file0" THEN FileNode(<<0>>)
         ELSE FileNode(<<1>>)]

\* the FileInfo of everything below the root, as listings give them to the client
Entries(f) ==
  LET root == getRoot.segs
  IN  {[name |-> q[Len(q)],
        path |-> joinSlash(SubSeq(q, Len(root) + 1, Len(q))),
        isDirectory |-> f[q].dir] :
         q \in {r \in DOMAIN f : IsPrefix(root, r) /\ r # root}}

\* the folders a client can pick as a target: the root and every listed folder
Folders(f) == {<<>>} \cup {e.path : e \in {x \in Entries(f) : x.isDirectory}}

InitMove ==
  /\ InitConfig
  /\ fs \in {TreeWith(k) : k \in TreeKinds}
  /\ pre = fs
  /\ last = NoLast
  /\ sIn = <<>>
  /\ sOut = <<>>
  /\ sPc = "idle"

MoveStep(op, file, target, r) ==
  /\ last.op = "none"
  /\ fs' = r.fs
  /\ pre' = fs
  /\ last' = [op |-> op, a1 |-> file.path, a2 |-> target, data |-> <<>>,
              threw |-> FALSE, ok |-> r.ok, entries |-> <<>>, targets |-> {},
              joined |-> {}, isDirectory |-> file.isDirectory, issued |-> r.issued,
              error |-> r.error, destination |-> r.destination]
  /\ configCache' = loadConfig(configCache, configFile, diskOk).cache
  /\ configFile' = loadConfig(configCache, configFile, diskOk).file
  /\ UNCHANGED <<diskOk, sIn, sOut, sPc, procs>>

DialogMove ==
  /\ last.op = "none"
  /\ \E file \in Entries(fs), selectedPath \in Folders(fs) :
       \E r \in {handleMove(fs, file, selectedPath)} :
         MoveStep("handleMove", file, selectedPath, r)

DropMove ==
  /\ last.op = "none"
  /\ \E draggedFile \in Entries(fs), targetPath \in Folders(fs) :
       \E r \in {handleDrop(fs, draggedFile, targetPath)} :
         MoveStep("handleDrop", draggedFile, targetPath, r)

\* a client that posts to /api/move itself
DirectMove ==
  /\ last.op = "none"
  /\ \E file \in Entries(fs), target \in Folders(fs) :
       LET destination == relativePath(target, file.name)
       IN  \E r \in {postMove(fs, file.path, destination)} :
             MoveStep("postMove", file, target,
                      MoveOutcome(r.fs, TRUE, r.ok, "", destination))

\* a move during which the removal of the source fails
UnlinkFault ==
  /\ last.op = "none"
  /\ \E file \in Entries(fs), target \in Folders(fs) :
       LET destination == relativePath(target, file.name)
       IN  \E r \in {moveFileFault(fs, file.path, destination, TRUE)} :
             MoveStep("unlinkFault", file, target,
                      MoveOutcome(r.fs, TRUE, r.ok, "", destination))

NextMove ==
  \/ DialogMove
  \/ DropMove
  \/ DirectMove
  \/ UnlinkFault
  \/ Respond

SpecMove == InitMove /\ [][NextMove]_vars

(***************************************************************************)
(* SpecSaves: calls of loadConfig and saveConfig in flight together.  A     *)
(* call runs alone from one await to the next; what it awaits (the test for *)
(* the file, the reading of the file, the write) completes at any later     *)
(* moment, in any order with respect to the other calls.  A write takes     *)
(* effect when it completes.                                                *)
(***************************************************************************)
MaxCalls == 3

\* bodies of POST /api/config that switch the active location
SaveBodies == {[activeLocationIndex |-> JNum(k)] : k \in 1..2}

\* the updated configuration of the saveConfig whose write completed last
LatestSave == IF last.op = "saveConfig" THEN last.value ELSE JUndefined

\* a call at its first await: loadConfig returns the cache when there is one, and
\* otherwise waits for file.exists(); saveConfig starts with loadConfig
NewCall(fn, newConfig) ==
  [fn |-> fn, newConfig |-> newConfig, data |-> FileAbsent, saved |-> JUndefined,
   pc |-> IF configCache = JNull THEN "exists" ELSE IF fn = "loadConfig" THEN "done"
          ELSE "write",
   value |-> IF configCache = JNull THEN JUndefined
             ELSE IF fn = "loadConfig" THEN configCache
             ELSE Spread(configCache, newConfig)]

\* loadConfig returns config: a loadConfig call is done, a saveConfig call merges
\* newConfig over what it got and starts the write
Returned(p, config, saved) ==
  IF p.fn = "loadConfig"
  THEN [p EXCEPT !.pc = "done", !.value = config, !.saved = saved]
  ELSE [p EXCEPT !.pc = "write", !.value = Spread(config, p.newConfig)]

InitSaves ==
  /\ configCache = JNull
  /\ configFile \in {FileAbsent, FileOf(JSONstringify(DefaultConfig))}
  /\ diskOk = TRUE
  /\ procs = <<>>
  /\ fs = InitFs
  /\ pre = fs
  /\ last = NoLast
  /\ sIn = <<>>
  /\ sOut = <<>>
  /\ sPc = "idle"

\* GET /api/config, or getRoot of a file operation
CallLoadConfig ==
  /\ Len(procs) < MaxCalls
  /\ procs' = Append(procs, [NewCall("loadConfig", JUndefined) EXCEPT !.saved = LatestSave])
  /\ UNCHANGED <<fs, pre, last, sIn, sOut, sPc, configCache, configFile, diskOk>>

\* POST /api/config
CallSaveConfig ==
  \E body \in SaveBodies :
    /\ Len(procs) < MaxCalls
    /\ procs' = Append(procs, NewCall("saveConfig", body))
    /\ UNCHANGED <<fs, pre, last, sIn, sOut, sPc, configCache, configFile, diskOk>>

\* await file.exists() resumes: the file is read next, or the default becomes the
\* cache and saveConfig(configCache) starts its write
FileExists ==
  \E i \in DOMAIN procs :
    /\ procs[i].pc = "exists"
    /\ IF configFile = FileAbsent
       THEN /\ configCache' = DefaultConfig
            /\ procs' = [procs EXCEPT ![i].pc = "nested"]
       ELSE /\ procs' = [procs EXCEPT ![i].pc = "json"]
            /\ UNCHANGED configCache
    /\ UNCHANGED <<fs, pre, last, sIn, sOut, sPc, configFile, diskOk>>

\* file.json() reads the file
FileJson ==
  \E i \in DOMAIN procs :
    /\ procs[i].pc = "json"
    /\ procs' = [procs EXCEPT ![i].pc = "parsed", ![i].data = configFile]
    /\ UNCHANGED <<fs, pre, last, sIn, sOut, sPc, configCache, configFile, diskOk>>

\* await file.json() resumes: the cache is assigned from what was read (the
\* default, in the catch, when that cannot be parsed) and returned
Parsed ==
  \E i \in DOMAIN procs :
    LET config == loadConfig(JNull, procs[i].data, diskOk).cache
    IN  /\ procs[i].pc = "parsed"
        /\ configCache' = config
        /\ procs' = [procs EXCEPT ![i] = Returned(procs[i], config, LatestSave)]
        /\ UNCHANGED <<fs, pre, last, sIn, sOut, sPc, configFile, diskOk>>

\* the write of saveConfig(configCache) inside loadConfig completes; loadConfig
\* returns the cache
NestedSave ==
  \E i \in DOMAIN procs :
    LET updated == Spread(DefaultConfig, DefaultConfig)
    IN  /\ procs[i].pc = "nested"
        /\ configFile' = FileOf(JSONstringify(updated))
        /\ configCache' = updated
        /\ last' = ConfigRecord("saveConfig", DefaultConfig, FALSE, updated)
        /\ procs' = [procs EXCEPT ![i] = Returned(procs[i], updated, updated)]
        /\ UNCHANGED <<fs, pre, sIn, sOut, sPc, diskOk>>

\* await Bun.write resumes: configCache = updated; return updated
WriteDone ==
  \E i \in DOMAIN procs :
    /\ procs[i].pc = "write"
    /\ configFile' = FileOf(JSONstringify(procs[i].value))
    /\ configCache' = procs[i].value
    /\ last' = ConfigRecord("saveConfig", procs[i].newConfig, FALSE, procs[i].value)
    /\ procs' = [procs EXCEPT ![i].pc = "done"]
    /\ UNCHANGED <<fs, pre, sIn, sOut, sPc, diskOk>>

NextSaves ==
  \/ CallLoadConfig
  \/ CallSaveConfig
  \/ FileExists
  \/ FileJson
  \/ Parsed
  \/ NestedSave
  \/ WriteDone

SpecSaves == InitSaves /\ [][NextSaves]_vars

(***************************************************************************)
(* SpecRace: listFiles and moveFile calls in flight while files are deleted *)
(* and the active location is switched.  A call runs alone from one await   *)
(* to the next.                                                             *)
(***************************************************************************)
\* moveFile that resolves the destination against the root that is active when it
\* writes
moveFrom_RootPerPath(f, root, sourcePath, destPath) ==
  LET fullSource == join(root, safePath(sourcePath))
      fullDest == join(getRoot, safePath(destPath))
      m == mkdir(f, dirname(fullDest))
      w == BunWrite(m.fs, fullDest, f[fullSource.segs].data)
      u == unlink(w.fs, fullSource)
      done(ok, g0) == [ok |-> ok, fs |-> g0, read |-> fullSource.segs,
                       written |-> fullDest.segs]
  IN  IF ~BunFileExists(f, fullSource) THEN done(FALSE, f)
      ELSE IF ~m.ok THEN done(FALSE, f)
      ELSE IF ~w.ok THEN done(FALSE, m.fs)
      ELSE IF ~u.ok THEN done(FALSE, w.fs)
      ELSE done(TRUE, u.fs)

\* moveFile from the point where it holds its root: both paths are joined onto
\* that root; read and written are the paths it read from and wrote to
moveFrom(f, root, sourcePath, destPath) ==
  LET safeSource == safePath(sourcePath)
      safeDest == safePath(destPath)
      fullSource == join(root, safeSource)
      fullDest == join(root, safeDest)
      m == mkdir(f, dirname(fullDest))
      content == f[fullSource.segs].data
      w == BunWrite(m.fs, fullDest, content)
      u == unlink(w.fs, fullSource)
      done(ok, g0) == [ok |-> ok, fs |-> g0, read |-> fullSource.segs,
                       written |-> fullDest.segs]
  IN  IF ~BunFileExists(f, fullSource) THEN done(FALSE, f)
      ELSE IF ~m.ok THEN done(FALSE, f)
      ELSE IF ~w.ok THEN done(FALSE, m.fs)
      ELSE IF ~u.ok THEN done(FALSE, w.fs)
      ELSE done(TRUE, u.fs)

MaxRaces == 2

\* the names of the two files the first location holds
RaceNames == {g, gz}

InitRace ==
  /\ InitConfig
  /\ fs = RootWith({<<n, FALSE>> : n \in RaceNames})
  /\ pre = fs
  /\ last = NoLast
  /\ sIn = <<>>
  /\ sOut = <<>>
  /\ sPc = "idle"

\* a call of files.ts after its `await ensureDataDir()`. known: the paths that
\* have existed ever since the call began
RaceCall(fn, a1, a2) ==
  LET e == ensureDataDir(fs)
  IN  /\ Len(procs) < MaxRaces
      /\ fs' = e.fs
      /\ procs' = Append(procs,
           [fn |-> fn, a1 |-> a1, a2 |-> a2, pc |-> IF e.ok THEN "root" ELSE "done",
            threw |-> ~e.ok, ok |-> FALSE, root |-> getRoot, names |-> {}, files |-> {},
            entries |-> <<>>, read |-> <<>>, written |-> <<>>, active |-> getRoot,
            known |-> DOMAIN e.fs])
      /\ configCache' = loadConfig(configCache, configFile, diskOk).cache
      /\ configFile' = loadConfig(configCache, configFile, diskOk).file
      /\ UNCHANGED <<pre, last, sIn, sOut, sPc, diskOk>>

\* the calls in flight, once the filesystem has become f
Seen(ps, f) ==
  [i \in DOMAIN ps |->
     IF ps[i].pc = "done" THEN ps[i] ELSE [ps[i] EXCEPT !.known = @ \cap DOMAIN f]]

CallListFiles == RaceCall("listFiles", <<>>, <<>>)

CallMoveFile ==
  \E sourcePath \in RaceNames, destPath \in RaceNames :
    sourcePath # destPath /\ RaceCall("moveFile", sourcePath, destPath)

\* const root = await getRoot()
GetRoot ==
  \E i \in DOMAIN procs :
    /\ procs[i].pc = "root"
    /\ procs' = [procs EXCEPT ![i].root = getRoot,
                              ![i].pc = IF procs[i].fn = "listFiles" THEN "readdir"
                                        ELSE "move"]
    /\ configCache' = loadConfig(configCache, configFile, diskOk).cache
    /\ configFile' = loadConfig(configCache, configFile, diskOk).file
    /\ UNCHANGED <<fs, pre, last, sIn, sOut, sPc, diskOk>>

\* const entries = await readdir(targetDir); a rejection is caught: return []
Readdir ==
  \E i \in DOMAIN procs :
    LET targetDir == join(procs[i].root, procs[i].a1)
    IN  /\ procs[i].pc = "readdir"
        /\ procs' = IF statOk(fs, targetDir) /\ IsDir(fs, targetDir.segs)
                    THEN [procs EXCEPT ![i].names = readdir(fs, targetDir) \ {GITKEEP},
                                       ![i].pc = "stat"]
                    ELSE [procs EXCEPT ![i].pc = "done", ![i].ok = TRUE]
        /\ UNCHANGED <<fs, pre, last, sIn, sOut, sPc, configCache, configFile, diskOk>>

\* one turn of the loop, const stats = await stat(filePath), in whatever order
\* readdir gave the names; past the last name the sorted files are returned; a
\* rejected stat is caught: return []
Stat ==
  \E i \in DOMAIN procs :
    LET p == procs[i]
        targetDir == join(p.root, p.a1)
    IN  /\ p.pc = "stat"
        /\ IF p.names = {}
           THEN procs' = [procs EXCEPT ![i].pc = "done", ![i].ok = TRUE,
                                       ![i].entries = sortEntries(p.files)]
           ELSE \E entry \in p.names :
                  procs' = IF join(targetDir, entry).segs \in DOMAIN fs
                           THEN [procs EXCEPT
                                   ![i].names = @ \ {entry},
                                   ![i].files = @ \cup {listEntry(fs, targetDir, p.a1, entry)}]
                           ELSE [procs EXCEPT ![i].pc = "done", ![i].ok = TRUE,
                                              ![i].entries = <<>>]
        /\ UNCHANGED <<fs, pre, last, sIn, sOut, sPc, configCache, configFile, diskOk>>

\* the rest of moveFile, with the root it holds
Move ==
  \E i \in DOMAIN procs :
    LET p == procs[i]
        r == moveFrom(fs, p.root, p.a1, p.a2)
    IN  /\ p.pc = "move"
        /\ fs' = r.fs
        /\ procs' = Seen([procs EXCEPT ![i].pc = "done", ![i].ok = r.ok,
                                       ![i].read = r.read, ![i].written = r.written,
                                       ![i].active = getRoot], r.fs)
        /\ UNCHANGED <<pre, last, sIn, sOut, sPc, configCache, configFile, diskOk>>

\* DELETE /api/files/:path of another client
RaceDelete ==
  \E filePath \in RaceNames :
    LET r == deleteFile(fs, filePath)
    IN  /\ r.ok
        /\ fs' = r.fs
        /\ procs' = Seen(procs, r.fs)
        /\ configCache' = loadConfig(configCache, configFile, diskOk).cache
        /\ configFile' = loadConfig(configCache, configFile, diskOk).file
        /\ UNCHANGED <<pre, last, sIn, sOut, sPc, diskOk>>

\* POST /api/config of another client switches the active location
RaceSwitch ==
  \E body \in {[activeLocationIndex |-> JNum(k)] : k \in 0..1} :
    LET r == saveConfig(configCache, configFile, diskOk, body)
    IN  /\ r.cache # configCache
        /\ configCache' = r.cache
        /\ configFile' = r.file
        /\ UNCHANGED <<fs, pre, last, sIn, sOut, sPc, diskOk, procs>>

NextRace ==
  \/ CallListFiles
  \/ CallMoveFile
  \/ GetRoot
  \/ Readdir
  \/ Stat
  \/ Move
  \/ RaceDelete
  \/ RaceSwitch

SpecRace == InitRace /\ [][NextRace]_vars

(***************************************************************************)
(* SpecSanitize: the sanitizer alone, on every name of at most MaxName code  *)
(* units over a set of characters inside and outside the safe class          *)
(***************************************************************************)
NUL == "\\0"
SanChars == {"a", "Z", "7", ".", "_", "-", "/", "#", NUL}
NameCandidates == SeqsOf(SanChars, MaxName)

InitSanitize ==
  /\ fs = InitFs
  /\ pre = InitFs
  /\ last = NoLast
  /\ sIn \in NameCandidates
  /\ sOut = <<>>
  /\ sPc = "input"
  /\ InitConfig

SanitizeName ==
  /\ sPc = "input"
  /\ sOut' = safeName(sIn)
  /\ sPc' = "done"
  /\ UNCHANGED <<fs, pre, last, sIn, configCache, configFile, diskOk, procs>>

NextSanitize == SanitizeName

SpecSanitize == InitSanitize /\ [][NextSanitize]_vars

(***************************************************************************)
(* Claims                                                                  *)
(***************************************************************************)
\* the absolute path that getFile, deleteFile and moveFile resolve a client path to
Resolved(path) == join(getRoot, safePath(path))

AllSafe(name) == \A i \in 1..Len(name) : name[i] \in SafeChars

\* C1: every absolute path an operation resolves, reads or mutates is the active
\* root or a descendant of it, whatever the client-supplied path or name
C1_PathTraversal ==
  \A t \in last.targets : IsPrefix(getRoot.segs, t)

\* C2: every segment an operation joins onto the root is sanitized, in listFiles,
\* saveFile and createFolder as in getFile, deleteFile and moveFile
C2_EverySegmentSanitized ==
  \A seg \in last.joined : \A i \in 1..Len(seg) : seg[i] \in SafeChars

\* C3: the sanitized relative path of getFile, deleteFile and moveFile never holds
\* a ".." segment
C3_NoParentSegment ==
  last.op \in {"getFile", "deleteFile", "moveFile"} => <<".", ".">> \notin last.joined

\* C4: the sanitizer's output has the length of its input, keeps every character of
\* [A-Za-z0-9._-] in place, holds "_" everywhere else, and sanitizing it again
\* changes nothing
C4_SanitizerOneToOne ==
  sPc = "done" =>
    /\ Len(sOut) = Len(sIn)
    /\ \A i \in 1..Len(sIn) :
         /\ sIn[i] \in SafeChars => sOut[i] = sIn[i]
         /\ sIn[i] \notin SafeChars => sOut[i] = "_"
    /\ safeName(sOut) = sOut

C4_Witness ==
  /\ sPc = "done"
  /\ \E i \in 1..Len(sIn) : sIn[i] \notin SafeChars
  /\ \E i \in 1..Len(sIn) : sIn[i] \in SafeChars /\ sIn[i] # "_"
  /\ sOut # sIn

\* C5: every Entry that listFiles, saveFile or createFolder returns has a name made
\* only of characters of [A-Za-z0-9._-]
C5_EntryNamesSafe ==
  \A i \in 1..Len(last.entries) : AllSafe(last.entries[i].name)

\* C6 as stated: a move of an existing regular file to a destination whose parent
\* directory does not exist creates the parent, returns true, removes the file from
\* the source directory and leaves the source's bytes in the destination directory
MoveDone(S, D) ==
  /\ last.ok
  /\ IsDir(fs, dirname(D).segs)
  /\ S.segs \notin DOMAIN fs
  /\ S.segs[Len(S.segs)] \notin readdir(fs, dirname(S))
  /\ D.segs[Len(D.segs)] \in readdir(fs, dirname(D))
  /\ IsFile(fs, D.segs)
  /\ fs[D.segs].data = pre[S.segs].data

C6_MoveCreatesParent ==
  LET S == Resolved(last.a1)
      D == Resolved(last.a2)
  IN  (last.op = "moveFile" /\ BunFileExists(pre, S) /\ ~IsDir(pre, dirname(D).segs))
        => MoveDone(S, D)

\* C6 amended: the same, when the root directory exists, for a destination that
\* does not end in a separator and none of whose ancestors is a regular file
C6_MovePrecondition ==
  LET S == Resolved(last.a1)
      D == Resolved(last.a2)
  IN  /\ last.op = "moveFile"
      /\ IsDir(pre, getRoot.segs)
      /\ BunFileExists(pre, S)
      /\ ~IsDir(pre, dirname(D).segs)
      /\ ~D.trail
      /\ \A q \in Prefixes(dirname(D).segs) : ~IsFile(pre, q)

C6_MoveCreatesParentAmended ==
  C6_MovePrecondition => MoveDone(Resolved(last.a1), Resolved(last.a2))

C6_Witness ==
  /\ C6_MovePrecondition
  /\ last.ok
  /\ Len(pre[Resolved(last.a1).segs].data) > 0

\* C7: deleteFile on an existing file or directory returns true and the target is
\* gone; deleting the same path again at once returns false; deleteFile never throws
C7_DeleteTwice ==
  last.op = "deleteFile" =>
    /\ ~last.threw
    /\ statOk(pre, Resolved(last.a1)) =>
         /\ last.ok
         /\ Resolved(last.a1).segs \notin DOMAIN fs
         /\ ~deleteFile(fs, last.a1).ok

\* C8 as stated: after saveFile(name, bytes, p), listFiles(p) holds exactly one
\* Entry named by the sanitized name, a file of bytes' length and of the type of
\* its extension, whether or not the file existed before
SavedAndListed ==
  LET safe == safeName(last.a1)
      l == listFiles(fs, last.a2).entries
      hits == {i \in 1..Len(l) : l[i].name = safe}
  IN  /\ Cardinality(hits) = 1
      /\ \A i \in hits :
           /\ l[i].size = Len(last.data)
           /\ l[i].type = getFileType(safe)
           /\ ~l[i].isDirectory

FolderTarget ==
  IF Len(last.a2) > 0 THEN join(join(getRoot, last.a2), safeName(last.a1))
  ELSE join(getRoot, safeName(last.a1))

FolderEntry ==
  [name |-> safeName(last.a1), size |-> 0, type |-> "folder", isDirectory |-> TRUE,
   path |-> relativePath(last.a2, safeName(last.a1))]

RootIsEmpty(f) == \A q \in DOMAIN f : ~(IsPrefix(getRoot.segs, q) /\ q # getRoot.segs)

EnsuredExisting ==
  /\ ~last.threw
  /\ last.entries = <<FolderEntry>>
  /\ fs = pre
  /\ createFolder(fs, last.a1, last.a2).entries = last.entries
  /\ createFolder(fs, last.a1, last.a2).fs = fs

ListedAlone ==
  /\ ~last.threw
  /\ listFiles(fs, <<>>).entries = <<FolderEntry>>
  /\ FolderEntry.path = FolderEntry.name

C9_CreateFolderIdempotent ==
  last.op = "createFolder" =>
    /\ IsDir(pre, FolderTarget.segs) => EnsuredExisting
    /\ (Len(last.a2) = 0 /\ RootIsEmpty(pre)) => ListedAlone

\* C9 amended: the first half when the root directory exists; the second half for a
\* name whose sanitized form is not empty, ".", ".." or .gitkeep
C9_CreateFolderIdempotentAmended ==
  last.op = "createFolder" =>
    /\ (IsDir(pre, FolderTarget.segs) /\ IsDir(pre, getRoot.segs)) => EnsuredExisting
    /\ (Len(last.a2) = 0 /\ RootIsEmpty(pre)
          /\ safeName(last.a1) \notin {<<>>, <<".">>, <<".", ".">>, GITKEEP}) => ListedAlone

C9_Witness ==
  /\ last.op = "createFolder"
  /\ IsDir(pre, getRoot.segs)
  /\ IsDir(pre, FolderTarget.segs)
  /\ FolderTarget.segs # getRoot.segs
  /\ IsPrefix(getRoot.segs, FolderTarget.segs)
  /\ readdir(pre, FolderTarget) # {}
  /\ ~last.threw

\* C10: listFiles on a path that is missing or not a directory returns an empty
\* sequence and does not throw; so does listFiles("") on a root that was not yet
\* created or holds no files
C10_ListMissingIsEmpty ==
  last.op = "listFiles" =>
    /\ ~last.threw
    /\ ~IsDir(fs, join(getRoot, last.a1).segs) => last.entries = <<>>
    /\ (Len(last.a1) = 0 /\ RootIsEmpty(pre)) => last.entries = <<>>

C10_Witness ==
  /\ last.op = "listFiles"
  /\ IsFile(fs, join(getRoot, last.a1).segs)
  /\ IsPrefix(getRoot.segs, join(getRoot, last.a1).segs)
  /\ last.entries = <<>>

\* C11: after a completed saveConfig({activeLocationIndex: i}) every file operation
\* that starts (listFiles, saveFile, createFolder, getFile, deleteFile, moveFile)
\* resolves against locations[i].path, also when the server was restarted in
\* between, and no longer against the path of the location that was active before
SwitchPaths == { <<>>, <<"g","z">>, <<".",".","/","g","z">>, <<"#">> }
SwitchNames == { <<"g","z">>, <<"#">> }

\* the location a completed save of only an activeLocationIndex names
SwitchedLocation == At(Get(last.value, "locations"), last.a1.activeLocationIndex)

\* the root that was active before the last configuration request
RootBefore == getDataDir(loadConfig(last.before, last.fileBefore, diskOk).cache).path

ResolvesAgainst(root) ==
  /\ ~getRootResult.threw
  /\ getRoot = root
  /\ \A p \in SwitchPaths :
       /\ listFiles(fs, p).targets = {join(root, p).segs}
       /\ getFile(fs, p).targets = {join(root, safePath(p)).segs}
       /\ deleteFile(fs, p).targets = {join(root, safePath(p)).segs}
       /\ \A q \in SwitchPaths :
            moveFile(fs, p, q).targets
              = {join(root, safePath(p)).segs, join(root, safePath(q)).segs}
       /\ \A name \in SwitchNames :
            /\ saveFile(fs, name, <<0>>, p).targets
                 = {(IF Len(p) > 0 THEN join(root, p) ELSE root).segs,
                    join(IF Len(p) > 0 THEN join(root, p) ELSE root, safeName(name)).segs}
            /\ createFolder(fs, name, p).targets
                 = {join(IF Len(p) > 0 THEN join(root, p) ELSE root, safeName(name)).segs}

C12_ConfigRoundTrip ==
  (last.op = "saveConfig" /\ ~last.threw)
    => loadConfig(JNull, configFile, diskOk).cache = last.value

\* C13: when the write of saveConfig fails, saveConfig throws and the cache holds
\* the configuration it held before the call (the one loadConfig gave, when nothing
\* was cached), not the update
C13_FailedSaveKeepsCache ==
  (last.op = "saveConfig" /\ ~diskOk) =>
    /\ last.threw
    /\ configCache = loadConfig(last.before, last.fileBefore, diskOk).cache
    /\ last.before # JNull => configCache = last.before

C13_Witness ==
  /\ last.op = "saveConfig"
  /\ ~diskOk
  /\ last.threw
  /\ last.before # JNull
  /\ Spread(last.before, last.a1) # last.before

\* C14: loadConfig never throws; with a cache it returns the cache; with no file it
\* returns the built-in default and persists it; on a read, parse or write error it
\* returns the built-in default
C14_LoadNeverFails ==
  last.op = "loadConfig" =>
    /\ ~last.threw
    /\ last.before # JNull => last.value = last.before
    /\ (last.before = JNull /\ last.fileBefore = FileAbsent) =>
         /\ last.value = DefaultConfig
         /\ diskOk => configFile = FileOf(DefaultConfig)
    /\ (last.before = JNull
          /\ (last.fileBefore.kind = "corrupt"
                \/ (last.fileBefore.kind = "json" /\ Nullish(last.fileBefore.doc))
                \/ (last.fileBefore.kind = "absent" /\ ~diskOk))) =>
         last.value = DefaultConfig

C14_Witness ==
  /\ last.op = "loadConfig"
  /\ last.before = JNull
  /\ last.fileBefore.kind \in {"corrupt", "absent"}
  /\ ~diskOk
  /\ ~last.threw
  /\ last.value = DefaultConfig

\* C15: in a batch upload and in delete-selected every item is attempted, whatever
\* happened to the items before it, and the items that completed stay completed:
\* the uploaded files are there, the deleted paths are gone
FileNames(formData) ==
  LET files == SelectSeq(formData, LAMBDA v : v.isFile)
  IN  [i \in 1..Len(files) |-> files[i].name]

C15_BatchItemsIndependent ==
  /\ last.op = "uploadFiles" =>
       /\ last.attempted = FileNames(last.a1)
       /\ \A i \in 1..Len(last.entries) :
            IsFile(fs, join(IF Len(last.a2) > 0 THEN join(getRoot, last.a2) ELSE getRoot,
                            last.entries[i].name).segs)
  /\ last.op = "deleteSelected" =>
       /\ Len(last.attempted) = Len(last.a1)
       /\ \A i \in 1..Len(last.attempted) :
            /\ last.attempted[i].path = last.a1[i]
            /\ last.attempted[i].ok => Resolved(last.a1[i]).segs \notin DOMAIN fs

\* C16: a request with an empty folder name, an empty file name or an empty delete
\* path is rejected and changes nothing in the filesystem (the creation of a
\* missing root directory aside)
C16_EmptyTargetRejected ==
  /\ (last.op = "deleteFile" /\ last.a1 = <<>>)
       => (~last.ok /\ fs = mkdir(pre, getRoot).fs)
  /\ (last.op = "saveFile" /\ last.a1 = <<>>)
       => (last.threw /\ fs = mkdir(pre, getRoot).fs)
  /\ \A path \in ParentPaths :
       /\ ~postFolders(fs, <<>>, path).ok
       /\ postFolders(fs, <<>>, path).fs = fs

\* C17: getFile returns a file exactly when a regular file is at the resolved path;
\* for a directory there, as for nothing there, it returns null
C17_GetFileOnlyRegularFiles ==
  (last.op = "getFile" /\ ~last.threw) =>
    LET R == Resolved(last.a1)
    IN  /\ last.ok => IsFile(fs, R.segs)
        /\ (IsFile(fs, R.segs) /\ ~R.trail) => last.ok
        /\ IsDir(fs, R.segs) => ~last.ok
        /\ R.segs \notin DOMAIN fs => ~last.ok
        /\ fs = mkdir(pre, getRoot).fs

C17_Witness ==
  /\ last.op = "getFile"
  /\ ~last.threw
  /\ IsDir(fs, Resolved(last.a1).segs)
  /\ Resolved(last.a1).segs # getRoot.segs
  /\ IsPrefix(getRoot.segs, Resolved(last.a1).segs)
  /\ ~last.ok

\* C18: in the result of listFiles every directory comes before every file, and
\* the directories among themselves, as the files, are in ascending order of their
\* names compared without regard to case
LowerName(name) == [i \in 1..Len(name) |-> toLowerCase(name[i])]

CompareIgnoringCase(a, b) ==
  lexCompare([i \in 1..Len(a) |-> Rank(a[i])], [i \in 1..Len(b) |-> Rank(b[i])])

C18_ListingOrder ==
  last.op = "listFiles" =>
    \A i, j \in 1..Len(last.entries) :
      i < j =>
        /\ last.entries[j].isDirectory => last.entries[i].isDirectory
        /\ last.entries[i].isDirectory = last.entries[j].isDirectory
             => CompareIgnoringCase(last.entries[i].name, last.entries[j].name) <= 0

C18_Witness ==
  /\ last.op = "listFiles"
  /\ Len(last.entries) = 3
  /\ last.entries[1].isDirectory
  /\ ~last.entries[2].isDirectory
  /\ last.entries[2].name = <<"a">>
  /\ last.entries[3].name = <<"B">>

\* C19: no entry of a result of listFiles is named .gitkeep, whatever the listed
\* directory holds
C19_GitkeepNeverListed ==
  last.op = "listFiles" =>
    /\ \A i \in 1..Len(last.entries) : last.entries[i].name # GITKEEP
    /\ {last.entries[i].name : i \in 1..Len(last.entries)}
         = readdir(fs, getRoot) \ {GITKEEP}

C19_Witness ==
  /\ last.op = "listFiles"
  /\ GITKEEP \in readdir(fs, getRoot)
  /\ Len(last.entries) = 2

\* C20: a directory is classified folder whatever its name; any other entry by its
\* lowercased extension in the table, and file when the extension is not in the
\* table or the name has no "." at all
HasExtension(name) == \E i \in 1..Len(name) : name[i] = "."

Extension(name) == LowerName(splitOn(name, ".")[Len(splitOn(name, "."))])

TypeOfExtension(ext) ==
  IF ext \in DocumentExt THEN "document"
  ELSE IF ext \in ImageExt THEN "image"
  ELSE IF ext \in VideoExt THEN "video"
  ELSE IF ext \in AudioExt THEN "audio"
  ELSE IF ext \in ArchiveExt THEN "archive"
  ELSE "file"

C20_TypeClassification ==
  last.op = "listFiles" =>
    \A i \in 1..Len(last.entries) :
      LET e == last.entries[i]
      IN  /\ e.isDirectory => e.type = "folder"
          /\ (~e.isDirectory /\ HasExtension(e.name))
               => e.type = TypeOfExtension(Extension(e.name))
          /\ (~e.isDirectory /\ ~HasExtension(e.name)) => e.type = "file"

\* C21: a move of a folder into itself or into one of its descendants is rejected
\* with the filesystem untouched, from the move dialog, from a drop and from a
\* direct request; and a move is rejected as a move into itself only when it is
\* one, not when the target is a sibling whose name starts with the folder's name
IntoItself(source, target) == IsPrefix(split(source), split(target))

C21_MoveIntoItself ==
  (last.op \in {"handleMove", "handleDrop", "postMove"} /\ last.isDirectory) =>
    /\ IntoItself(last.a1, last.a2) => (~last.ok /\ fs = mkdir(pre, getRoot).fs)
    /\ last.error = "Cannot move a folder into itself" => IntoItself(last.a1, last.a2)

\* C22: moveFile copies, then deletes: when the removal of the source fails after
\* the destination has been written, source and destination are both present
\* afterwards and moveFile reports false; in every other outcome of a single move
\* at most one of the two holds the moved bytes
MovedFrom == join(getRoot, safePath(last.a1)).segs
MovedTo == join(getRoot, safePath(last.destination)).segs
HoldsMoved(q) == IsFile(fs, q) /\ fs[q].data = pre[MovedFrom].data
RemovalFailedAfterWrite ==
  last.op = "unlinkFault" /\ moveFile(pre, last.a1, last.destination).ok

C22_MoveNotAtomic ==
  (last.op \in {"postMove", "unlinkFault"} /\ IsFile(pre, MovedFrom)) =>
    IF RemovalFailedAfterWrite
    THEN HoldsMoved(MovedFrom) /\ HoldsMoved(MovedTo) /\ ~last.ok
    ELSE ~(HoldsMoved(MovedFrom) /\ HoldsMoved(MovedTo))

C22_Witness ==
  /\ last.op = "unlinkFault"
  /\ IsFile(pre, MovedFrom)
  /\ RemovalFailedAfterWrite
  /\ MovedFrom # MovedTo
  /\ MovedTo \in DOMAIN pre
  /\ pre[MovedTo].data # pre[MovedFrom].data
  /\ HoldsMoved(MovedFrom) /\ HoldsMoved(MovedTo)

\* C23: concurrent saveConfig calls follow last-writer-wins: once all the saves in
\* flight together have completed, the cache and the file both equal the merged
\* result of the save whose write completed last
SavesCompleted ==
  /\ \E i \in DOMAIN procs : procs[i].fn = "saveConfig"
  /\ \A i \in DOMAIN procs : procs[i].fn = "saveConfig" => procs[i].pc = "done"

C23_LastWriterWins ==
  SavesCompleted =>
    /\ configCache = LatestSave
    /\ configFile = FileOf(JSONstringify(LatestSave))

\* C28: the cache never falls back behind a completed save: a loadConfig that
\* returns after a saveConfig has completed returns the configuration of that save
\* or of a later one, also when a loadConfig that found no cache was in flight
\* meanwhile
C28_NoRegression ==
  \A i \in DOMAIN procs :
    (procs[i].fn = "loadConfig" /\ procs[i].pc = "done" /\ procs[i].saved # JUndefined) =>
      procs[i].value = procs[i].saved

\* C24: getDataDir and getActiveLocation give locations[activeLocationIndex] when
\* the index addresses an existing location, and otherwise (index out of bounds,
\* or no cache yet for getDataDir) the first built-in default location
Addressed(config) ==
  LET locations == Get(config, "locations")
      index == Get(config, "activeLocationIndex")
  IN  /\ ~IsObject(locations) /\ locations.kind = "array"
      /\ ~IsObject(index) /\ index.kind = "number"
      /\ index.n < Len(locations.items)

ActiveRootPath(config) ==
  IF config # JNull /\ Addressed(config)
  THEN config.locations.items[config.activeLocationIndex.n + 1].path
  ELSE DEFAULT_LOCATIONS[1].path

C24_ActiveRootPath ==
  LET dir == getDataDir(configCache)
      active == getActiveLocation(configCache, configFile, diskOk)
      loaded == loadConfig(configCache, configFile, diskOk).cache
  IN  /\ ~dir.threw /\ dir.path = ActiveRootPath(configCache)
      /\ ~active.threw /\ active.location.path = ActiveRootPath(loaded)

\* C25: after any sequence of POST /api/config with arbitrary partial bodies the
\* stored configuration satisfies 0 <= activeLocationIndex < length(locations):
\* the active root is one of the configured locations and the fallback for an
\* index out of bounds is never taken
C25_IndexInBounds ==
  /\ configCache # JNull => Addressed(configCache)
  /\ (configFile.kind = "json" /\ ~Nullish(configFile.doc)) => Addressed(configFile.doc)

\* C26: a successful move never loses the file: whenever moveFile(src, dst)
\* returns true the bytes that were at src are at dst afterwards, also when src
\* and dst are the same file (a file dropped on the folder it is in)
C26_MoveKeepsFile ==
  (/\ last.op \in {"handleMove", "handleDrop", "postMove"}
   /\ last.ok
   /\ IsFile(pre, MovedFrom)) => HoldsMoved(MovedTo)

\* C27: deleteFile never removes the active root directory itself: for every
\* path, the empty string and "." among them, the root exists after the call
C27_DeleteKeepsRoot ==
  (last.op = "deleteFile" /\ ~last.threw) => IsDir(fs, getRoot.segs)

\* C29: a listFiles that runs while files of the same directory are deleted or
\* moved still returns every entry that exists for the whole duration of the
\* listing: one entry vanishing between the directory read and its stat does not
\* drop the others
Listed(p) == {p.entries[k].name : k \in DOMAIN p.entries}

C29_ListingKeepsStableEntries ==
  \A i \in DOMAIN procs :
    (procs[i].fn = "listFiles" /\ procs[i].pc = "done" /\ ~procs[i].threw) =>
      \A n \in RaceNames :
        join(procs[i].root, n).segs \in procs[i].known => n \in Listed(procs[i])

\* C30: one moveFile resolves its source and its destination against one root:
\* also when the active location is switched while the move is in flight, it does
\* not read from one location and write into another
C30_MoveWithinOneRoot ==
  \A i \in DOMAIN procs :
    (procs[i].fn = "moveFile" /\ procs[i].pc = "done" /\ ~procs[i].threw) =>
      \E k \in DOMAIN DEFAULT_LOCATIONS :
        /\ procs[i].read = join(DEFAULT_LOCATIONS[k].path, safePath(procs[i].a1)).segs
        /\ procs[i].written = join(DEFAULT_LOCATIONS[k].path, safePath(procs[i].a2)).segs

C30_Witness ==
  \E i \in DOMAIN procs :
    /\ procs[i].fn = "moveFile" /\ procs[i].pc = "done" /\ procs[i].ok
    /\ procs[i].active # procs[i].root
    /\ IsFile(fs, procs[i].written) /\ procs[i].read \notin DOMAIN fs

====
